---- MODULE Spec2Model ----
(***************************************************************************)
(* State-machine model of the bluesky_tool engagement engine               *)
(* (automator.py), its persistence layer (storage.py) and the parts of the *)
(* HTTP client (client.py) that decide how a remote failure surfaces.      *)
(*                                                                         *)
(* One behaviour is a sequence of invocations of BlueskyAutomator.run()    *)
(* over one configuration, one state directory and one remote universe.    *)
(* Every remote call either succeeds, fails with an HTTP status >= 400     *)
(* (client._request raises BlueskyError) or fails in the transport         *)
(* (session.request raises a requests exception, which is not a            *)
(* BlueskyError and is caught only by run()).                              *)
(***************************************************************************)
EXTENDS Integers, Sequences, FiniteSets, TLC

\* ------------------------------------------------------------------ bounds
MaxRuns    == 2      \* invocations of run() in one behaviour
MaxFaults  == 1      \* failing remote calls in one behaviour
MaxListLen == 3      \* entries of a remote follower listing
MaxClock   == 3      \* hours the clock can advance
PageSize   == 2      \* followers per page of a listing response

\* Optional[...] = None (config.py: follow_limit, like_limit, limit_per_run;
\* an absent cursor).  Limits and cursors are non-negative otherwise.
None == -1

\* --------------------------------------------------------------- universe
Followers == {"f1", "f2", "f3"}
Dids      == Followers \cup {"me"}
Uris      == {"p1", "p3"}

\* Python's sorted() on the identifiers of the model: lexicographic order.
StrOrder == <<"f1", "f2", "f3", "me", "p1", "p3">>

\* Latest feed item of each actor (getAuthorFeed, limit=1): f2's latest item
\* is a repost of f1's post, f3 has a post of its own.
FeedOf == [d \in Dids |-> CASE d = "f1" -> <<"p1">>
                            [] d = "f2" -> <<"p1">>
                            [] d = "f3" -> <<"p3">>
                            [] OTHER    -> << >>]

\* The author of each post: the URI a feed item carries is the post's own,
\* whoever's feed it is listed in.
AuthorOf == [u \in Uris |-> IF u = "p1" THEN "f1" ELSE "f3"]

\* Account handles, as character sequences.
HandleA == <<"a", ".", "1">>
HandleB == <<"b", "@", "1">>
HandleC == <<"b", "_", "1">>

RECURSIVE SeqsUpTo(_, _)
SeqsUpTo(S, n) ==
    IF n = 0 THEN {<< >>}
    ELSE LET shorter == SeqsUpTo(S, n - 1)
         IN  shorter \cup {Append(s, x) : s \in {t \in shorter : Len(t) = n - 1}, x \in S}

ToSet(seq) == {seq[i] : i \in DOMAIN seq}

Min(a, b) == IF a < b THEN a ELSE b

EmptyMap == [x \in {} |-> 0]

Put(f, k, v) == [x \in DOMAIN f \cup {k} |-> IF x = k THEN v ELSE f[x]]

\* ------------------------------------------------------------ storage.py
sorted(S) == SelectSeq(StrOrder, LAMBDA x : x \in S)

TargetState == [followed |-> {}, liked_posts |-> {}]

AccountState == [known_followers |-> {}, dm_history |-> EmptyMap, targets |-> EmptyMap]

TargetState_to_dict(ts) ==
    [followed |-> sorted(ts.followed), liked_posts |-> sorted(ts.liked_posts)]


\* Mutant of TargetState.from_dict: liked_posts is read from the wrong key.
TargetState_from_dict_wrong_key(data) ==
    [followed |-> ToSet(data.followed), liked_posts |-> ToSet(data.followed)]

TargetState_from_dict(data) ==
    [followed |-> ToSet(data.followed), liked_posts |-> ToSet(data.liked_posts)]

to_dict(s) ==
    [known_followers |-> sorted(s.known_followers),
     dm_history      |-> s.dm_history,
     targets         |-> [h \in DOMAIN s.targets |-> TargetState_to_dict(s.targets[h])]]

from_dict(data) ==
    [known_followers |-> ToSet(data.known_followers),
     dm_history      |-> data.dm_history,
     targets         |-> [h \in DOMAIN data.targets |-> TargetState_from_dict(data.targets[h])]]

\* Mutant of target: the TargetState of the handle is created anew on every use.
target_always_new(s, handle) == [s EXCEPT !.targets = Put(s.targets, handle, TargetState)]

\* AccountState.target: the TargetState of a handle, created empty on first use.
target(s, handle) ==
    IF handle \in DOMAIN s.targets THEN s
    ELSE [s EXCEPT !.targets = Put(s.targets, handle, TargetState)]

SafeChars == {"a", "b", "1", ".", "-", "_"}

_path_for(handle) == [i \in DOMAIN handle |-> IF handle[i] \in SafeChars THEN handle[i] ELSE "_"]

load(st, handle) ==
    IF _path_for(handle) \notin DOMAIN st THEN AccountState
    ELSE from_dict(st[_path_for(handle)])

save(st, handle, s) == Put(st, _path_for(handle), to_dict(s))

\* ------------------------------------------------------------- client.py
\* One page of a listing: cursor 0 stands for "no cursor" (None or empty,
\* both falsy); a present cursor is the offset of the next page.
get_followers(listing, cursor) ==
    [followers |-> SubSeq(listing, cursor + 1, Min(cursor + PageSize, Len(listing))),
     cursor    |-> IF cursor + PageSize < Len(listing) THEN cursor + PageSize ELSE 0]

\* datetime.isoformat of an aware UTC time, and datetime.fromisoformat.
isoformat(t) == [t |-> t, tz |-> "+00:00"]

fromisoformat(s) ==
    [ok |-> s.tz \in {"+00:00", ""}, t |-> s.t, tzinfo |-> IF s.tz = "" THEN "naive" ELSE "utc"]

\* Other strings a state file can hold as a timestamp: a time without UTC
\* offset, a text that is no ISO time, and the empty string.
Naive(t) == [t |-> t, tz |-> ""]

Malformed == [t |-> 0, tz |-> "junk"]

NoText == [t |-> 0, tz |-> "empty"]

\* -------------------------------------------------------------- config.py
TargetConfig(handle, follow_limit, like_latest_post, like_limit) ==
    [handle |-> handle, follow_limit |-> follow_limit,
     like_latest_post |-> like_latest_post, like_limit |-> like_limit]

DMConfig == [enabled |-> FALSE, message |-> "", limit_per_run |-> None, cooldown_hours |-> 0]

AccountConfig(handle, follow_targets, dm) ==
    [handle |-> handle, follow_targets |-> follow_targets, dm |-> dm,
     follow_delay_seconds |-> 1, like_delay_seconds |-> 1]

Config(accounts) ==
    [accounts |-> accounts,
     default_follow_delay_seconds |-> 1, default_like_delay_seconds |-> 1]

\* The delay _build_account and load_config fall back to: 2.5 seconds, in
\* tenths of a second (the unit of every delay of the model).
BuiltinDelay == 25

_build_target(data) ==
    TargetConfig(data.handle, data.follow_limit, data.like_latest_post, data.like_limit)

\* "if not data: return DMConfig()": an absent or empty dm section.
_build_dm(data) ==
    IF data = EmptyMap THEN DMConfig
    ELSE [enabled |-> data.enabled, message |-> data.message,
          limit_per_run |-> data.limit_per_run, cooldown_hours |-> data.cooldown_hours]

_float_or_default(value, default) == IF value = None THEN default ELSE value

\* dict.get(key, default) on a section whose absent keys read None.
get(value, default) == IF value = None THEN default ELSE value

_build_account(data) ==
    [handle |-> data.handle,
     follow_targets |-> [i \in DOMAIN data.follow_targets |-> _build_target(data.follow_targets[i])],
     dm |-> _build_dm(data.dm),
     follow_delay_seconds |->
         _float_or_default(get(data.follow_delay_seconds, data.delay_seconds), BuiltinDelay),
     like_delay_seconds |->
         _float_or_default(get(data.like_delay_seconds, data.delay_seconds), BuiltinDelay)]

load_config(data) ==
    [accounts |-> [i \in DOMAIN data.accounts |-> _build_account(data.accounts[i])],
     default_follow_delay_seconds |-> get(data.default_follow_delay_seconds, BuiltinDelay),
     default_like_delay_seconds |-> get(data.default_like_delay_seconds, BuiltinDelay)]

\* ----------------------------------------------- configurations and remotes
FollowLimits == {None, 0, 1, 2}
LikeLimits   == {None, 0, 1}
DMLimits     == {None, 0, 1, 2}
Cooldowns    == {0, 2}

\* The second account of every configuration: no targets, no messaging.
AccountB == AccountConfig(HandleB, << >>, DMConfig)

\* What the remote service holds: the DID of each account, the follower
\* listing of each target, and the follower listing of the first account.
Remote(t1, t2, own) ==
    [did       |-> [h \in {HandleA, HandleB, HandleC} |-> IF h = HandleB THEN "me2" ELSE "me"],
     followers |-> [a \in {"t1", "t2", "me", "me2"} |->
                        CASE a = "t1" -> t1 [] a = "t2" -> t2 [] a = "me" -> own [] OTHER -> << >>]]

\* The configuration was built without a document.
NoDocument == EmptyMap

\* One target with every limit and every listing; messaging disabled.
EngageWorlds ==
    {[document |-> NoDocument,
      config |-> Config(<<AccountConfig(HandleA, <<TargetConfig("t1", fl, TRUE, ll)>>, DMConfig),
                          AccountB>>),
      remote |-> Remote(l, << >>, << >>)] :
        fl \in FollowLimits, ll \in LikeLimits, l \in SeqsUpTo(Dids, MaxListLen)}

\* No target; messaging with every limit, cooldown and listing of own followers.
DMWorlds ==
    {[document |-> NoDocument,
      config |-> Config(<<AccountConfig(HandleA, << >>,
                              [enabled |-> TRUE, message |-> "hi {handle}",
                               limit_per_run |-> lim, cooldown_hours |-> cd]),
                          AccountB>>),
      remote |-> Remote(<< >>, << >>, l)] :
        lim \in DMLimits, cd \in Cooldowns, l \in SeqsUpTo({"f1", "f2"}, MaxListLen)}

\* Two targets (the second without likes) followed by messaging.
MixedWorlds ==
    {[document |-> NoDocument,
      config |-> Config(<<AccountConfig(HandleA,
                              <<TargetConfig("t1", 1, TRUE, None), TargetConfig("t2", None, FALSE, None)>>,
                              [enabled |-> TRUE, message |-> "hi", limit_per_run |-> None,
                               cooldown_hours |-> 0]),
                          AccountB>>),
      remote |-> Remote(<<"f1", "f2", "f3">>, <<"f2", "me">>, <<"f1", "f2">>)]}

\* Two targets without limits whose listings share a follower; no likes, no
\* messaging.
SharedWorlds ==
    {[document |-> NoDocument,
      config |-> Config(<<AccountConfig(HandleA,
                              <<TargetConfig("t1", None, FALSE, None), TargetConfig("t2", None, FALSE, None)>>,
                              DMConfig),
                          AccountB>>),
      remote |-> Remote(<<"f1", "f2">>, <<"f2">>, << >>)]}

\* An account section of a configuration document; an absent key reads None.
DocAccount(handle, follow_targets, dm, follow_delay, like_delay, delay) ==
    [handle |-> handle, follow_targets |-> follow_targets, dm |-> dm,
     follow_delay_seconds |-> follow_delay, like_delay_seconds |-> like_delay,
     delay_seconds |-> delay]

\* Configuration documents: one target with likes, messaging, and every
\* combination of absent, zero and positive delays.
Documents ==
    {[accounts |-> <<DocAccount(HandleA, <<TargetConfig("t1", None, TRUE, None)>>,
                                [enabled |-> TRUE, message |-> "hi", limit_per_run |-> None,
                                 cooldown_hours |-> 0],
                                fd, ld, d),
                     DocAccount(HandleB, << >>, EmptyMap, None, None, None)>>,
      default_follow_delay_seconds |-> g,
      default_like_delay_seconds |-> g] :
        fd \in {None, 0, 10}, ld \in {None, 10}, d \in {None, 30}, g \in {None, 40}}

\* The configuration is loaded from a document by load_config.
DelayWorlds ==
    {[document |-> doc, config |-> load_config(doc),
      remote |-> Remote(<<"f1">>, << >>, <<"f2">>)] : doc \in Documents}

Worlds == EngageWorlds \cup DMWorlds \cup MixedWorlds \cup DelayWorlds \cup SharedWorlds

\* A few worlds of each kind, for the specifications with fairness or with
\* other account handles.
SmallWorlds ==
    {w \in EngageWorlds :
        /\ w.config.accounts[1].follow_targets[1].follow_limit \in {None, 1}
        /\ w.config.accounts[1].follow_targets[1].like_limit \in {None, 0}
        /\ w.remote.followers["t1"] \in {<<"f1", "f2", "f3">>, <<"f1", "me", "f1">>}}
    \cup {w \in DMWorlds :
        /\ w.config.accounts[1].dm.limit_per_run \in {None, 1}
        /\ w.remote.followers["me"] \in {<<"f1", "f2", "f1">>, <<"f1", "f1", "f2">>}}
    \cup MixedWorlds

\* The same worlds with another handle for the first account.
CollisionWorlds == {[w EXCEPT !.config.accounts[1].handle = HandleC] : w \in SmallWorlds}

\* ---------------------------------------------------------------- state
VARIABLES
    document,        \* the configuration document load_config read, if any
    config,          \* Config handed to build_automator
    remote,          \* what the remote service holds (unchanged by the model)
    store,           \* the state directory: storage key -> serialized record
    now,             \* the clock, in hours
    runs,            \* invocations of run() so far
    faults,          \* failed remote calls so far
    dry_run,         \* AutomationContext.dry_run of the current invocation
    pc,              \* position of the control flow
    acct,            \* index of the account run() is at
    state,           \* the AccountState _run_for_account holds in memory
    session,         \* the BlueskyClient's requests.Session: none, open, closed
    ti,              \* index of the target _run_for_account is at
    cursor,          \* cursor of the pagination in progress
    items,           \* followers of the page being iterated
    idx,             \* position in items
    followed_count,  \* _engage_target's followed_count
    liked_count,     \* _engage_target's liked_count
    sent,            \* _message_new_followers' sent
    hist             \* observations of the run, read by the properties only

env    == <<document, config, remote>>
locals == <<ti, cursor, items, idx, followed_count, liked_count, sent>>
vars   == <<document, config, remote, store, now, runs, faults, dry_run, pc, acct, state, session,
            ti, cursor, items, idx, followed_count, liked_count, sent, hist>>

AcctIdx == 1 .. 2

account == config.accounts[acct]

\* Observations of one invocation of run(), per account where it matters.
RunHist ==
    [calls        |-> [a \in AcctIdx |-> {}],       \* remote endpoints called
     sessions     |-> [a \in AcctIdx |-> 0],        \* sessions opened
     saves        |-> [a \in AcctIdx |-> 0],        \* calls of StateStore.save
     outcome      |-> [a \in AcctIdx |-> "none"],   \* how the account's run ended
     before       |-> [a \in AcctIdx |-> AccountState],  \* the state as loaded
     engaged      |-> [a \in AcctIdx |-> 0],        \* _engage_target calls returned
     dm_done      |-> [a \in AcctIdx |-> FALSE],    \* _message_new_followers returned
     follow_calls |-> {},                           \* <<acct, target, did>> of follow calls
     follow_log   |-> << >>,                        \* the successful ones, in order
     like_calls   |-> {},                           \* <<acct, target, uri>> of like calls
     like_log     |-> << >>,                        \* the successful ones, in order
     put_followed |-> {},                           \* added to a followed set
     put_liked    |-> {},                           \* added to a liked_posts set
     dm_count     |-> [a \in AcctIdx |-> 0],        \* messages sent
     final        |-> [a \in AcctIdx |-> AccountState],  \* the state handed to save
     limit_hit    |-> [a \in AcctIdx |-> FALSE],    \* the DM limit ended messaging
     page_after_limit |-> [a \in AcctIdx |-> FALSE],  \* a later page was requested with the limit used up
     events       |-> [a \in AcctIdx |-> << >>],    \* remote calls and pauses, in order
     crossed      |-> {},                           \* loads and saves of another account's record
     failed       |-> {}]                           \* <<acct, target, did>> of failed follow calls

InitHist ==
    [run |-> RunHist,
     store0 |-> EmptyMap,        \* the store when the invocation began
     prev_followed |-> {},       \* put_followed of the previous invocation
     prev_liked |-> {},          \* put_liked of the previous invocation
     prev_saved |-> {},          \* accounts the previous invocation saved
     prev_failed |-> {},         \* failed follow calls of the previous invocation
     dm_log |-> << >>,           \* every message sent, over all invocations
     lost |-> {},                \* <<run, acct>> of account runs ended by an exception
     owner |-> EmptyMap]         \* storage key -> the account that wrote the record

Init ==
    /\ \E w \in Worlds : document = w.document /\ config = w.config /\ remote = w.remote
    /\ store = EmptyMap
    /\ now = 0
    /\ runs = 0
    /\ faults = 0
    /\ dry_run = FALSE
    /\ pc = "idle"
    /\ acct = 1
    /\ state = AccountState
    /\ session = "none"
    /\ ti = 1 /\ cursor = 0 /\ items = << >> /\ idx = 1
    /\ followed_count = 0 /\ liked_count = 0 /\ sent = 0
    /\ hist = InitHist

\* The state after construction, over a given set of worlds.
StartIn(W) ==
    /\ \E w \in W : document = w.document /\ config = w.config /\ remote = w.remote
    /\ store = EmptyMap
    /\ now = 0
    /\ runs = 0
    /\ faults = 0
    /\ dry_run = FALSE
    /\ pc = "idle"
    /\ acct = 1
    /\ state = AccountState
    /\ session = "none"
    /\ ti = 1 /\ cursor = 0 /\ items = << >> /\ idx = 1
    /\ followed_count = 0 /\ liked_count = 0 /\ sent = 0
    /\ hist = InitHist

LiveInit == StartIn(SmallWorlds)

\* State directories left by earlier use: none, or a record of the first
\* account with a dm_history entry for f1 in each form a timestamp can take.
Stamps == {isoformat(1), Naive(1), Malformed, NoText}

PolicyStores ==
    {EmptyMap} \cup
    {save(EmptyMap, HandleA, [AccountState EXCEPT !.dm_history = Put(EmptyMap, "f1", stamp)]) :
        stamp \in Stamps}

\* The state after construction over a state directory that may hold a
\* record already.
PolicyInit ==
    /\ \E w \in SmallWorlds : document = w.document /\ config = w.config /\ remote = w.remote
    /\ store \in PolicyStores
    /\ now = 0
    /\ runs = 0
    /\ faults = 0
    /\ dry_run = FALSE
    /\ pc = "idle"
    /\ acct = 1
    /\ state = AccountState
    /\ session = "none"
    /\ ti = 1 /\ cursor = 0 /\ items = << >> /\ idx = 1
    /\ followed_count = 0 /\ liked_count = 0 /\ sent = 0
    /\ hist = [InitHist EXCEPT !.store0 = store]

CollisionInit == StartIn(CollisionWorlds)

\* ------------------------------------------------------- remote outcomes
\* ok: the call returns; bluesky: HTTP status >= 400, client._request raises
\* BlueskyError; transport: session.request raises (timeout, connection
\* error), which no handler below run() catches.
Results == {"ok", "bluesky", "transport"}

Fault(r) ==
    /\ r # "ok" => faults < MaxFaults
    /\ faults' = IF r = "ok" THEN faults ELSE faults + 1

Called(h, kinds) == [h EXCEPT !.run.calls[acct] = @ \cup kinds]

\* The record under the account's storage key was written by another account.
Foreign(h) ==
    /\ _path_for(account.handle) \in DOMAIN h.owner
    /\ h.owner[_path_for(account.handle)] # acct

\* A load or a save of the account's record, as an observation.
Touched(h, how) ==
    IF Foreign(h) THEN [h EXCEPT !.run.crossed = @ \cup {<<how, acct>>}] ELSE h

\* An entry of the log of an account run: a remote call (op, its subject,
\* its outcome, and for a page of followers the cursor of the response) or a
\* pause (op "sleep", the action it follows, the seconds slept).
Ev(op, arg, res, n) == [op |-> op, arg |-> arg, res |-> res, n |-> n]

Log(h, evs) == [h EXCEPT !.run.events[acct] = @ \o evs]

\* if delay > 0: time.sleep(delay), as an entry of the log.
Slept(kind, delay) == IF delay > 0 THEN <<Ev("sleep", kind, "slept", delay)>> ELSE << >>

Ended(h, how) == [h EXCEPT !.run.outcome[acct] = how]

ResetLocals ==
    /\ ti' = 1 /\ cursor' = 0 /\ items' = << >> /\ idx' = 1
    /\ followed_count' = 0 /\ liked_count' = 0 /\ sent' = 0

\* _run_for_account is left: the with-block closes the session, the state it
\* held goes out of scope, and run()'s loop moves to the next account.
LeaveAccount ==
    /\ session' = IF session = "open" THEN "closed" ELSE session
    /\ state' = AccountState
    /\ pc' = "account"
    /\ acct' = acct + 1
    /\ ResetLocals


\* Mutant of RunExcept: run() without its handler, the exception ends run().
RunExcept_reraise ==
    /\ pc' = "idle"
    /\ acct' = 1

\* run(): the handler around _run_for_account logs the exception and the
\* loop goes on with the next account.
RunExcept ==
    /\ pc' = "account"
    /\ acct' = acct + 1

\* An exception leaves _run_for_account: the with-block closes the session
\* on the way out and run() catches the exception.
RaiseToRun ==
    /\ session' = IF session = "open" THEN "closed" ELSE session
    /\ state' = AccountState
    /\ ResetLocals
    /\ RunExcept

Raised(h) == [Ended(h, "exception") EXCEPT !.lost = @ \cup {<<runs, acct>>}]

\* ---------------------------------------------------------------- run()
\* main(): one invocation of the tool, with or without --dry-run.
StartRun ==
    /\ pc = "idle"
    /\ runs < MaxRuns
    /\ runs' = runs + 1
    /\ \E d \in BOOLEAN : dry_run' = d
    /\ pc' = "account"
    /\ acct' = 1
    /\ session' = "none"
    /\ hist' = [hist EXCEPT !.run = RunHist, !.store0 = store,
                            !.prev_followed = hist.run.put_followed,
                            !.prev_liked = hist.run.put_liked,
                            !.prev_saved = {a \in AcctIdx : hist.run.outcome[a] = "saved"},
                            !.prev_failed = hist.run.failed]
    /\ UNCHANGED <<env, store, now, faults, state, locals>>

\* Time passes between two invocations.  The clock is read by the messaging
\* code only, so it moves only where messaging is configured.
Tick ==
    /\ pc = "idle"
    /\ now < MaxClock
    /\ \E a \in AcctIdx : config.accounts[a].dm.enabled
    /\ now' = now + 1
    /\ UNCHANGED <<env, store, runs, faults, dry_run, pc, acct, state, session, locals, hist>>

\* run(): the loop over the accounts is exhausted.
RunReturn ==
    /\ pc = "account"
    /\ acct > Len(config.accounts)
    /\ pc' = "idle"
    /\ acct' = 1
    /\ UNCHANGED <<env, store, now, runs, faults, dry_run, state, session, locals, hist>>


\* Mutant of RunForAccount: the dry-run flag is not consulted.
RunForAccount_live ==
    /\ pc = "account"
    /\ acct <= Len(config.accounts)
    /\ hist' = [hist EXCEPT !.run.before[acct] = load(store, account.handle),
                            !.run.sessions[acct] = @ + 1]
    /\ state' = load(store, account.handle)
    /\ pc' = "login"
    /\ acct' = acct
    /\ session' = "open"
    /\ UNCHANGED <<env, store, now, runs, faults, dry_run, locals>>

\* _run_for_account, up to the construction of the client.
RunForAccount ==
    /\ pc = "account"
    /\ acct <= Len(config.accounts)
    /\ LET loaded == load(store, account.handle)
           h == [Touched(hist, "load") EXCEPT !.run.before[acct] = loaded]
       IN  IF dry_run
           THEN /\ hist' = Ended(h, "dry_run")
                /\ state' = AccountState
                /\ pc' = "account"
                /\ acct' = acct + 1
                /\ session' = "none"
           ELSE /\ hist' = [h EXCEPT !.run.sessions[acct] = @ + 1]
                /\ state' = loaded
                /\ pc' = "login"
                /\ acct' = acct
                /\ session' = "open"
    /\ UNCHANGED <<env, store, now, runs, faults, dry_run, locals>>

\* client.login() and the handler around it.
LoginOk ==
    /\ pc = "login"
    /\ Fault("ok")
    /\ hist' = Log(Called(hist, {"createSession", "getProfile"}),
                    <<Ev("createSession", "self", "ok", 0), Ev("getProfile", "self", "ok", 0)>>)
    /\ pc' = "target"
    /\ ti' = 1
    /\ UNCHANGED <<env, store, now, runs, dry_run, acct, state, session,
                   cursor, items, idx, followed_count, liked_count, sent>>


\* Mutant of LoginFailed: the handler of the failed login saves the loaded
\* state before it returns.
LoginFailed_saves ==
    /\ pc = "login"
    /\ Fault("bluesky")
    /\ store' = save(store, account.handle, state)
    /\ hist' = Ended([Log(Called(hist, {"createSession"}),
                           <<Ev("createSession", "self", "bluesky", 0)>>)
                          EXCEPT !.run.saves[acct] = @ + 1],
                     "auth_failed")
    /\ LeaveAccount
    /\ UNCHANGED <<env, now, runs, dry_run>>

LoginFailed ==
    /\ pc = "login"
    /\ Fault("bluesky")
    /\ hist' = Ended(Log(Called(hist, {"createSession"}),
                         <<Ev("createSession", "self", "bluesky", 0)>>), "auth_failed")
    /\ LeaveAccount
    /\ UNCHANGED <<env, store, now, runs, dry_run>>

LoginRaised ==
    /\ pc = "login"
    /\ Fault("transport")
    /\ hist' = Raised(Log(Called(hist, {"createSession"}),
                          <<Ev("createSession", "self", "transport", 0)>>))
    /\ RaiseToRun
    /\ UNCHANGED <<env, store, now, runs, dry_run>>

\* store.save(account.handle, state), the last statement of the with-block.
Save ==
    /\ pc = "save"
    /\ store' = save(store, account.handle, state)
    /\ hist' = Ended([Touched(hist, "save") EXCEPT
                          !.run.saves[acct] = @ + 1, !.run.final[acct] = state,
                          !.owner = Put(@, _path_for(account.handle), acct)], "saved")
    /\ LeaveAccount
    /\ UNCHANGED <<env, now, runs, faults, dry_run>>

\* ------------------------------------------------------- _engage_target
tcfg == account.follow_targets[ti]

client_did == remote.did[account.handle]

\* _engage_target returns: the loop of _run_for_account takes the next target.
TargetDone(h) ==
    /\ hist' = [h EXCEPT !.run.engaged[acct] = @ + 1]
    /\ pc' = "target"
    /\ ti' = ti + 1
    /\ cursor' = 0 /\ items' = << >> /\ idx' = 1
    /\ followed_count' = 0 /\ liked_count' = 0

\* client.get_profile(target.handle) succeeds; the counters are initialised
\* and iterate_followers is created.
EngageTarget ==
    /\ pc = "target"
    /\ ti <= Len(account.follow_targets)
    /\ Fault("ok")
    /\ hist' = Log(Called(hist, {"getProfile"}), <<Ev("getProfile", tcfg.handle, "ok", 0)>>)
    /\ state' = target(state, tcfg.handle)
    /\ pc' = "page"
    /\ cursor' = 0 /\ items' = << >> /\ idx' = 1
    /\ followed_count' = 0 /\ liked_count' = 0
    /\ UNCHANGED <<env, store, now, runs, dry_run, acct, session, ti, sent>>

\* get_profile raises BlueskyError: the target is logged and abandoned.
EngageTargetFailed ==
    /\ pc = "target"
    /\ ti <= Len(account.follow_targets)
    /\ Fault("bluesky")
    /\ TargetDone(Log(Called(hist, {"getProfile"}),
                      <<Ev("getProfile", tcfg.handle, "bluesky", 0)>>))
    /\ UNCHANGED <<env, store, now, runs, dry_run, acct, state, session, sent>>

EngageTargetRaised ==
    /\ pc = "target"
    /\ ti <= Len(account.follow_targets)
    /\ Fault("transport")
    /\ hist' = Raised(Log(Called(hist, {"getProfile"}),
                          <<Ev("getProfile", tcfg.handle, "transport", 0)>>))
    /\ RaiseToRun
    /\ UNCHANGED <<env, store, now, runs, dry_run>>

\* iterate_followers requests a page of the target's followers.
IterateFollowers ==
    /\ pc = "page"
    /\ Fault("ok")
    /\ LET data == get_followers(remote.followers[tcfg.handle], cursor)
       IN  /\ items' = data.followers
           /\ cursor' = data.cursor
           /\ hist' = Log(Called(hist, {"getFollowers"}),
                           <<Ev("getFollowers", tcfg.handle, "ok", data.cursor)>>)
    /\ idx' = 1
    /\ pc' = "follower"
    /\ UNCHANGED <<env, store, now, runs, dry_run, acct, state, session, ti,
                   followed_count, liked_count, sent>>

\* The page request fails.  iterate_followers has no handler and the for
\* statement of _engage_target is outside its try blocks: a BlueskyError
\* leaves _engage_target and _run_for_account like any other exception.
IterateFollowersRaised ==
    /\ pc = "page"
    /\ \E r \in {"bluesky", "transport"} :
          /\ Fault(r)
          /\ hist' = Raised(Log(Called(hist, {"getFollowers"}),
                                <<Ev("getFollowers", tcfg.handle, r, 0)>>))
    /\ RaiseToRun
    /\ UNCHANGED <<env, store, now, runs, dry_run>>


\* Mutant of PageEnd: the cursor of the response is not consulted.
PageEnd_ignores_cursor ==
    /\ pc = "follower"
    /\ idx > Len(items)
    /\ pc' = "page"
    /\ UNCHANGED <<env, store, now, runs, faults, dry_run, acct, state, session, sent,
                   ti, cursor, items, idx, followed_count, liked_count, hist>>

\* The page is exhausted: the next one is requested if the response carried
\* a cursor, and the listing (and the target) is finished if not.
PageEnd ==
    /\ pc = "follower"
    /\ idx > Len(items)
    /\ IF cursor # 0
       THEN /\ pc' = "page"
            /\ hist' = hist
            /\ UNCHANGED <<ti, cursor, items, idx, followed_count, liked_count>>
       ELSE TargetDone(hist)
    /\ UNCHANGED <<env, store, now, runs, faults, dry_run, acct, state, session, sent>>

follower == items[idx]

target_state == state.targets[tcfg.handle]

\* The follower is skipped: it is the account itself or already followed.
SkipFollower ==
    /\ pc = "follower"
    /\ idx <= Len(items)
    /\ follower = client_did \/ follower \in target_state.followed
    /\ idx' = idx + 1
    /\ UNCHANGED <<env, store, now, runs, faults, dry_run, pc, acct, state, session,
                   ti, cursor, items, followed_count, liked_count, sent, hist>>


\* Mutant of MayFollow: the followed set is not consulted.
MayFollow_refollow ==
    /\ pc = "follower"
    /\ idx <= Len(items)
    /\ follower # client_did

MayFollow ==
    /\ pc = "follower"
    /\ idx <= Len(items)
    /\ follower # client_did
    /\ follower \notin target_state.followed

MarkFollowed(h) ==
    /\ state' = [state EXCEPT !.targets[tcfg.handle].followed = @ \cup {follower}]
    /\ hist' = [Called(h, {"follow"}) EXCEPT
                   !.run.follow_calls = @ \cup {<<acct, tcfg.handle, follower>>},
                   !.run.put_followed = @ \cup {<<acct, tcfg.handle, follower>>}]

_effective_delay(value, fallback) == IF value = None THEN fallback ELSE value

\* time.sleep(delay) if delay > 0.  The clock counts hours: a pause may or
\* may not carry it into the next hour (where the clock is read at all, that
\* is, where messaging is configured).
Sleep(delay) ==
    IF delay > 0 /\ account.dm.enabled
    THEN now' \in {now, Min(now + 1, MaxClock)}
    ELSE now' = now

\* The delays _engage_target and _message_new_followers resolve.
follow_delay == _effective_delay(account.follow_delay_seconds, config.default_follow_delay_seconds)

like_delay == _effective_delay(account.like_delay_seconds, config.default_like_delay_seconds)

\* client.follow succeeds: the follower is recorded and counted, and the
\* follow delay is slept.
Follow ==
    /\ MayFollow
    /\ Fault("ok")
    /\ MarkFollowed(Log([hist EXCEPT !.run.follow_log = Append(@, <<acct, tcfg.handle, follower>>)],
                        <<Ev("follow", follower, "ok", 0)>> \o Slept("follow", follow_delay)))
    /\ followed_count' = followed_count + 1
    /\ Sleep(follow_delay)
    /\ pc' = "like"
    /\ UNCHANGED <<env, store, runs, dry_run, acct, session, ti, cursor, items, idx,
                   liked_count, sent>>

FollowFailedLog ==
    [Log(hist, <<Ev("follow", follower, "bluesky", 0)>>) EXCEPT
        !.run.failed = @ \cup {<<acct, tcfg.handle, follower>>}]

\* Mutant of FollowFailed: the handler does not record the follower.
FollowFailed_unmarked ==
    /\ MayFollow
    /\ Fault("bluesky")
    /\ hist' = [Called(FollowFailedLog, {"follow"}) EXCEPT
                   !.run.follow_calls = @ \cup {<<acct, tcfg.handle, follower>>}]
    /\ idx' = idx + 1
    /\ UNCHANGED <<env, store, now, runs, dry_run, pc, acct, state, session, ti, cursor, items,
                   followed_count, liked_count, sent>>

\* Mutant of FollowFailed: the follow delay is slept after the failed call too.
FollowFailed_pauses ==
    /\ MayFollow
    /\ Fault("bluesky")
    /\ MarkFollowed(Log(FollowFailedLog, Slept("follow", follow_delay)))
    /\ idx' = idx + 1
    /\ UNCHANGED <<env, store, now, runs, dry_run, pc, acct, session, ti, cursor, items,
                   followed_count, liked_count, sent>>

\* Mutant of FollowFailed: the handler falls through to the like step.
FollowFailed_likes ==
    /\ MayFollow
    /\ Fault("bluesky")
    /\ MarkFollowed(FollowFailedLog)
    /\ pc' = "like"
    /\ UNCHANGED <<env, store, now, runs, dry_run, acct, session, ti, cursor, items, idx,
                   followed_count, liked_count, sent>>

\* client.follow raises BlueskyError: the follower is recorded all the same.
FollowFailed ==
    /\ MayFollow
    /\ Fault("bluesky")
    /\ MarkFollowed(FollowFailedLog)
    /\ idx' = idx + 1
    /\ UNCHANGED <<env, store, now, runs, dry_run, pc, acct, session, ti, cursor, items,
                   followed_count, liked_count, sent>>

FollowRaised ==
    /\ MayFollow
    /\ Fault("transport")
    /\ hist' = Raised([Log(Called(hist, {"follow"}), <<Ev("follow", follower, "transport", 0)>>)
                          EXCEPT !.run.follow_calls = @ \cup {<<acct, tcfg.handle, follower>>}])
    /\ RaiseToRun
    /\ UNCHANGED <<env, store, now, runs, dry_run>>


\* Mutant of MayLike: the like limit is compared off by one.
MayLike_off_by_one(like_latest_post, like_limit, count) ==
    like_latest_post /\ (like_limit = None \/ count <= like_limit)

\* The condition under which _like_latest_post is called.
MayLike(like_latest_post, like_limit, count) ==
    like_latest_post /\ (like_limit = None \/ count < like_limit)


\* Mutant of LimitReached: the follow limit is compared off by one.
LimitReached_off_by_one(follow_limit, count) == follow_limit # None /\ count > follow_limit

\* The end of the loop body: the follow limit breaks the loop.
\* Mutant of LimitReached: the loop stops after the first follow of a limited target.
LimitReached_at_first(follow_limit, count) == follow_limit # None /\ count >= 1

LimitReached(follow_limit, count) == follow_limit # None /\ count >= follow_limit

AfterLike(h) ==
    IF LimitReached(tcfg.follow_limit, followed_count)
    THEN TargetDone(h)
    ELSE /\ hist' = h
         /\ pc' = "follower"
         /\ idx' = idx + 1
         /\ UNCHANGED <<ti, cursor, items, followed_count, liked_count>>

\* No like is attempted (likes are off or the like limit is used up), or
\* _like_latest_post returns False without a like call: the feed request
\* failed, the feed is empty, or the post is already in liked_posts.
NoLike ==
    /\ pc = "like"
    /\ \/ /\ ~MayLike(tcfg.like_latest_post, tcfg.like_limit, liked_count)
          /\ Fault("ok")
          /\ AfterLike(hist)
       \/ /\ MayLike(tcfg.like_latest_post, tcfg.like_limit, liked_count)
          /\ Fault("bluesky")
          /\ AfterLike(Log(Called(hist, {"getAuthorFeed"}),
                           <<Ev("getAuthorFeed", follower, "bluesky", 0)>>))
       \/ /\ MayLike(tcfg.like_latest_post, tcfg.like_limit, liked_count)
          /\ Fault("ok")
          /\ FeedOf[follower] = << >> \/ FeedOf[follower][1] \in target_state.liked_posts
          /\ AfterLike(Log(Called(hist, {"getAuthorFeed"}),
                           <<Ev("getAuthorFeed", follower, "ok", 0)>>))
    /\ UNCHANGED <<env, store, now, runs, dry_run, acct, state, session, sent>>

MayCallLike ==
    /\ pc = "like"
    /\ MayLike(tcfg.like_latest_post, tcfg.like_limit, liked_count)
    /\ FeedOf[follower] # << >>
    /\ FeedOf[follower][1] \notin target_state.liked_posts

uri == FeedOf[follower][1]

LikeCalled(h) ==
    [Called(h, {"getAuthorFeed", "like"}) EXCEPT
        !.run.like_calls = @ \cup {<<acct, tcfg.handle, uri>>}]

\* The feed request returned and client.like was called with outcome r.
LikeEvents(r) == <<Ev("getAuthorFeed", follower, "ok", 0), Ev("like", uri, r, 0)>>

\* client.like succeeds: the post is recorded and counted, the like delay slept.
Like ==
    /\ MayCallLike
    /\ Fault("ok")
    /\ state' = [state EXCEPT !.targets[tcfg.handle].liked_posts = @ \cup {uri}]
    /\ LET h == [Log(LikeCalled(hist), LikeEvents("ok") \o Slept("like", like_delay)) EXCEPT
                     !.run.like_log = Append(@, <<acct, tcfg.handle, uri>>),
                     !.run.put_liked = @ \cup {<<acct, tcfg.handle, uri>>}]
       IN  IF LimitReached(tcfg.follow_limit, followed_count)
           THEN TargetDone(h)
           ELSE /\ hist' = h
                /\ liked_count' = liked_count + 1
                /\ pc' = "follower"
                /\ idx' = idx + 1
                /\ UNCHANGED <<ti, cursor, items, followed_count>>
    /\ Sleep(like_delay)
    /\ UNCHANGED <<env, store, runs, dry_run, acct, session, sent>>

\* client.like raises BlueskyError: _like_latest_post returns False.
LikeFailed ==
    /\ MayCallLike
    /\ Fault("bluesky")
    /\ AfterLike(Log(LikeCalled(hist), LikeEvents("bluesky")))
    /\ UNCHANGED <<env, store, now, runs, dry_run, acct, state, session, sent>>

\* The feed request or the like call fails in the transport.
LikeRaised ==
    /\ pc = "like"
    /\ MayLike(tcfg.like_latest_post, tcfg.like_limit, liked_count)
    /\ Fault("transport")
    /\ \/ hist' = Raised(Log(Called(hist, {"getAuthorFeed"}),
                             <<Ev("getAuthorFeed", follower, "transport", 0)>>))
       \/ MayCallLike /\ hist' = Raised(Log(LikeCalled(hist), LikeEvents("transport")))
    /\ RaiseToRun
    /\ UNCHANGED <<env, store, now, runs, dry_run>>


\* Mutant of AfterTargets: the state is saved without messaging.
AfterTargets_no_messaging ==
    /\ pc = "target"
    /\ ti > Len(account.follow_targets)
    /\ pc' = "save"
    /\ cursor' = 0 /\ sent' = 0
    /\ UNCHANGED <<env, store, now, runs, faults, dry_run, acct, state, session, ti, items, idx,
                   followed_count, liked_count, hist>>

\* The loop over the targets is exhausted: messaging runs if it is enabled
\* and the template is not blank, and the state is saved if not.
AfterTargets ==
    /\ pc = "target"
    /\ ti > Len(account.follow_targets)
    /\ IF account.dm.enabled /\ account.dm.message # ""
       THEN pc' = "dm_page"
       ELSE pc' = "save"
    /\ cursor' = 0 /\ sent' = 0
    /\ UNCHANGED <<env, store, now, runs, faults, dry_run, acct, state, session, ti, items, idx,
                   followed_count, liked_count, hist>>

\* ----------------------------------------------- _message_new_followers
dm_config == account.dm

\* timedelta(hours=cooldown_hours) if cooldown_hours else None, in hours.
cooldown_of(cooldown_hours) == IF cooldown_hours # 0 THEN cooldown_hours ELSE None


\* Mutant of _should_send_dm: without a cooldown a messaged follower stays eligible.
_should_send_dm_no_history(did, st, cooldown) ==
    IF did \notin DOMAIN st.dm_history THEN TRUE
    ELSE IF cooldown = None \/ cooldown = 0 THEN TRUE
    ELSE LET last_sent == fromisoformat(st.dm_history[did])
         IN  IF ~last_sent.ok THEN TRUE
             ELSE now - last_sent.t >= cooldown

\* Mutant of _should_send_dm: the elapsed time is not compared with the cooldown.
_should_send_dm_no_wait(did, st, cooldown) ==
    IF did \notin DOMAIN st.dm_history THEN TRUE
    ELSE IF cooldown = None \/ cooldown = 0 THEN FALSE
    ELSE LET last_sent == fromisoformat(st.dm_history[did])
         IN  IF ~last_sent.ok THEN TRUE
             ELSE now - last_sent.t >= 0

\* Mutant of _should_send_dm: a timestamp that does not parse keeps the
\* follower from being messaged.
_should_send_dm_fail_closed(did, st, cooldown) ==
    IF did \notin DOMAIN st.dm_history THEN TRUE
    ELSE IF cooldown = None \/ cooldown = 0 THEN FALSE
    ELSE IF st.dm_history[did] = NoText THEN TRUE
    ELSE LET last_sent == fromisoformat(st.dm_history[did])
         IN  IF ~last_sent.ok THEN FALSE
             ELSE now - last_sent.t >= cooldown

_should_send_dm(did, st, cooldown) ==
    IF did \notin DOMAIN st.dm_history THEN TRUE
    ELSE IF cooldown = None \/ cooldown = 0 THEN FALSE
    ELSE IF st.dm_history[did] = NoText THEN TRUE
    ELSE LET last_sent == fromisoformat(st.dm_history[did])
         IN  IF ~last_sent.ok THEN TRUE
             ELSE now - last_sent.t >= cooldown


\* Mutant of DMLimitReached: the limit is compared off by one.
DMLimitReached_off_by_one(limit_per_run, count) == limit_per_run # None /\ count > limit_per_run

\* The per-run limit check in front of a send.
DMLimitReached(limit_per_run, count) == limit_per_run # None /\ count >= limit_per_run

\* _message_new_followers returns: _run_for_account goes on to save.
MessagingDone(h) ==
    /\ hist' = [h EXCEPT !.run.dm_done[acct] = TRUE]
    /\ pc' = "save"
    /\ cursor' = 0 /\ items' = << >> /\ idx' = 1 /\ sent' = 0

PageRequested(h) ==
    [Called(h, {"getFollowers"}) EXCEPT
        !.run.page_after_limit[acct] =
            @ \/ (cursor # 0 /\ dm_config.limit_per_run # None
                             /\ h.run.dm_count[acct] >= dm_config.limit_per_run)]

\* client.list_own_followers returns a page.
ListOwnFollowers ==
    /\ pc = "dm_page"
    /\ Fault("ok")
    /\ LET response == get_followers(remote.followers[client_did], cursor)
       IN  /\ items' = response.followers
           /\ cursor' = response.cursor
           /\ hist' = Log(PageRequested(hist),
                           <<Ev("getFollowers", client_did, "ok", response.cursor)>>)
    /\ idx' = 1
    /\ pc' = "dm_follower"
    /\ UNCHANGED <<env, store, now, runs, dry_run, acct, state, session, ti,
                   followed_count, liked_count, sent>>

\* list_own_followers raises BlueskyError: messaging is given up.
ListOwnFollowersFailed ==
    /\ pc = "dm_page"
    /\ Fault("bluesky")
    /\ MessagingDone(Log(PageRequested(hist), <<Ev("getFollowers", client_did, "bluesky", 0)>>))
    /\ UNCHANGED <<env, store, now, runs, dry_run, acct, state, session, ti,
                   followed_count, liked_count>>

ListOwnFollowersRaised ==
    /\ pc = "dm_page"
    /\ Fault("transport")
    /\ hist' = Raised(Log(PageRequested(hist), <<Ev("getFollowers", client_did, "transport", 0)>>))
    /\ RaiseToRun
    /\ UNCHANGED <<env, store, now, runs, dry_run>>

\* The page is exhausted: the loop goes on while the response had a cursor.
OwnPageEnd ==
    /\ pc = "dm_follower"
    /\ idx > Len(items)
    /\ IF cursor # 0
       THEN /\ pc' = "dm_page"
            /\ hist' = hist
            /\ UNCHANGED <<cursor, items, idx, sent>>
       ELSE MessagingDone(hist)
    /\ UNCHANGED <<env, store, now, runs, faults, dry_run, acct, state, session, ti,
                   followed_count, liked_count>>

Known(st) == [st EXCEPT !.known_followers = @ \cup {follower}]

Eligible ==
    /\ pc = "dm_follower"
    /\ idx <= Len(items)
    /\ _should_send_dm(follower, Known(state), cooldown_of(dm_config.cooldown_hours))

\* The follower is recorded as known and is not eligible for a message.
SkipMessage ==
    /\ pc = "dm_follower"
    /\ idx <= Len(items)
    /\ ~_should_send_dm(follower, Known(state), cooldown_of(dm_config.cooldown_hours))
    /\ state' = Known(state)
    /\ idx' = idx + 1
    /\ UNCHANGED <<env, store, now, runs, faults, dry_run, pc, acct, session, ti, cursor, items,
                   followed_count, liked_count, sent, hist>>

\* The follower is eligible and the per-run limit is used up: return.
MessageLimit ==
    /\ Eligible
    /\ DMLimitReached(dm_config.limit_per_run, sent)
    /\ state' = Known(state)
    /\ MessagingDone([hist EXCEPT !.run.limit_hit[acct] = TRUE])
    /\ UNCHANGED <<env, store, now, runs, faults, dry_run, acct, session, ti,
                   followed_count, liked_count>>

MaySend ==
    /\ Eligible
    /\ ~DMLimitReached(dm_config.limit_per_run, sent)

\* The conversation was resolved and sendMessage was called with outcome r.
SendEvents(r) == <<Ev("convo", follower, "ok", 0), Ev("sendMessage", follower, r, 0)>>

\* The record of a send: the timestamp written to dm_history.
RecordSend(st) == [st EXCEPT !.dm_history = Put(@, follower, isoformat(now))]

\* The conversation is resolved and the message sent; the send is recorded
\* and counted, and the follow delay is slept.
SendMessage ==
    /\ MaySend
    /\ Fault("ok")
    /\ state' = RecordSend(Known(state))
    /\ sent' = sent + 1
    /\ idx' = idx + 1
    /\ hist' = [Log(Called(hist, {"convo", "sendMessage"}),
                    SendEvents("ok") \o Slept("send", follow_delay)) EXCEPT
                   !.run.dm_count[acct] = @ + 1,
                   !.dm_log = Append(@, [run |-> runs, acct |-> acct, did |-> follower, t |-> now,
                                         prev |-> IF follower \in DOMAIN state.dm_history
                                                  THEN state.dm_history[follower].t ELSE None])]
    /\ Sleep(follow_delay)
    /\ UNCHANGED <<env, store, runs, dry_run, pc, acct, session, ti, cursor, items,
                   followed_count, liked_count>>


\* Mutant of MessageNotSupported: DirectMessageNotSupported is not handled
\* and leaves _run_for_account.
MessageNotSupported_unhandled ==
    /\ MaySend
    /\ Fault("bluesky")
    /\ hist' = Raised(Log(Called(hist, {"convo"}), <<Ev("convo", follower, "bluesky", 0)>>))
    /\ RaiseToRun
    /\ UNCHANGED <<env, store, now, runs, dry_run>>

\* An HTTP error in the conversation endpoints (create_or_get_conversation
\* swallows each and raises DirectMessageNotSupported at the end) or in
\* sendMessage (send_direct_message turns every BlueskyError into
\* DirectMessageNotSupported): messaging is given up.
MessageNotSupported ==
    /\ MaySend
    /\ Fault("bluesky")
    /\ state' = Known(state)
    /\ \/ MessagingDone(Log(Called(hist, {"convo"}), <<Ev("convo", follower, "bluesky", 0)>>))
       \/ MessagingDone(Log(Called(hist, {"convo", "sendMessage"}), SendEvents("bluesky")))
    /\ UNCHANGED <<env, store, now, runs, dry_run, acct, session, ti, followed_count, liked_count>>

MessageRaised ==
    /\ MaySend
    /\ Fault("transport")
    /\ \/ hist' = Raised(Log(Called(hist, {"convo"}), <<Ev("convo", follower, "transport", 0)>>))
       \/ hist' = Raised(Log(Called(hist, {"convo", "sendMessage"}), SendEvents("transport")))
    /\ RaiseToRun
    /\ UNCHANGED <<env, store, now, runs, dry_run>>

\* ------------------------------------------------------------------ spec
Next ==
    \/ StartRun
    \/ Tick
    \/ RunReturn
    \/ RunForAccount
    \/ LoginOk
    \/ LoginFailed
    \/ LoginRaised
    \/ EngageTarget
    \/ EngageTargetFailed
    \/ EngageTargetRaised
    \/ IterateFollowers
    \/ IterateFollowersRaised
    \/ PageEnd
    \/ SkipFollower
    \/ Follow
    \/ FollowFailed
    \/ FollowRaised
    \/ NoLike
    \/ Like
    \/ LikeFailed
    \/ LikeRaised
    \/ AfterTargets
    \/ ListOwnFollowers
    \/ ListOwnFollowersFailed
    \/ ListOwnFollowersRaised
    \/ OwnPageEnd
    \/ SkipMessage
    \/ MessageLimit
    \/ SendMessage
    \/ MessageNotSupported
    \/ MessageRaised
    \/ Save

Spec == Init /\ [][Next]_vars

\* The interpreter keeps executing: a step that can be taken is taken.
LiveSpec == LiveInit /\ [][Next]_vars /\ WF_vars(Next)

\* The engine over accounts whose handles differ in an unsafe character only.
CollisionSpec == CollisionInit /\ [][Next]_vars

\* The runs over a state directory that may hold a record already.
PolicySpec == PolicyInit /\ [][Next]_vars

\* ------------------------------------------------------------ properties
R == hist.run

Handle(a) == config.accounts[a].handle

Targets(a) == config.accounts[a].follow_targets

\* The account's run has begun and is over.
Finished(a) == R.outcome[a] # "none"

\* client.login() returned a profile for the account in this invocation.
Authenticated(a) == "getProfile" \in R.calls[a]

\* _run_for_account is between the load and the save of the account.
InProgress(a) ==
    /\ acct = a
    /\ pc \in {"login", "target", "page", "follower", "like", "dm_page", "dm_follower", "save"}

\* The persisted record of an account: whether it exists, and what it holds.
Stored(st, a) ==
    IF _path_for(Handle(a)) \in DOMAIN st
    THEN <<TRUE, st[_path_for(Handle(a))]>>
    ELSE <<FALSE, to_dict(AccountState)>>

\* The followed / liked_posts set of a target in the state as loaded.
LoadedFollowed(a, t) ==
    IF t \in DOMAIN R.before[a].targets THEN R.before[a].targets[t].followed ELSE {}

LoadedLiked(a, t) ==
    IF t \in DOMAIN R.before[a].targets THEN R.before[a].targets[t].liked_posts ELSE {}

\* Positions in the log of the messages sent by an account to an identifier.
Sends(a, d) == {i \in DOMAIN hist.dm_log : hist.dm_log[i].acct = a /\ hist.dm_log[i].did = d}

\* C1: a failure while processing one account (a failed login, a failed
\* remote call, a transport exception) does not keep run() from processing
\* every later account: whenever the loop is at an account, every account in
\* front of it has been processed, and when run() has returned every
\* configured account has been.
C1_FailureIsolation ==
    /\ pc # "idle" => \A a \in AcctIdx : a < acct => Finished(a)
    /\ (pc = "idle" /\ runs > 0) => \A a \in AcctIdx : Finished(a)

\* C1 witness: run() has returned, the first account's run was ended by an
\* exception and the second account was processed and saved.
C1_Witness ==
    /\ pc = "idle"
    /\ R.outcome[1] = "exception"
    /\ R.outcome[2] = "saved"

\* C2 as stated: an invocation issues no follow call for an identifier the
\* previous invocation put into the target's followed set, and no like call
\* for a URI the previous invocation put into its liked_posts set.
C2_Original ==
    /\ \A c \in R.follow_calls : c \notin hist.prev_followed
    /\ \A c \in R.like_calls : c \notin hist.prev_liked

\* C2 as amended: an invocation issues no follow call for an identifier in
\* the followed set it loaded and no like call for a URI in the liked_posts
\* set it loaded; and when the previous invocation saved the account, no
\* follow (like) call for anything that invocation put into followed
\* (liked_posts).
C2_Idempotent ==
    /\ \A c \in R.follow_calls :
          /\ c[3] \notin LoadedFollowed(c[1], c[2])
          /\ c[1] \in hist.prev_saved => c \notin hist.prev_followed
    /\ \A c \in R.like_calls :
          /\ c[3] \notin LoadedLiked(c[1], c[2])
          /\ c[1] \in hist.prev_saved => c \notin hist.prev_liked

\* C2 witness: the second invocation saved the first account after listing
\* a target's followers without a follow call, the first invocation having
\* followed and liked and saved.
C2_Witness ==
    /\ runs = 2
    /\ pc = "idle"
    /\ R.outcome[1] = "saved"
    /\ 1 \in hist.prev_saved
    /\ hist.prev_followed # {}
    /\ hist.prev_liked # {}
    /\ "getFollowers" \in R.calls[1]
    /\ R.follow_calls = {}

\* The identifiers followed with success for a target in this invocation.
FollowedNow(a, t) == {c[3] : c \in {x \in ToSet(R.follow_log) : x[1] = a /\ x[2] = t}}

\* C3: for a target with follow_limit = N, at most N distinct identifiers
\* are followed with success in one invocation.
C3_FollowLimit ==
    \A a \in AcctIdx : \A i \in DOMAIN Targets(a) :
        Targets(a)[i].follow_limit # None =>
            Cardinality(FollowedNow(a, Targets(a)[i].handle)) <= Targets(a)[i].follow_limit

\* The successful like calls for a target in this invocation.
LikesNow(a, t) == {i \in DOMAIN R.like_log : R.like_log[i][1] = a /\ R.like_log[i][2] = t}

\* C4: for a target with like_limit = N, at most N like calls succeed and
\* at most N URIs are added to liked_posts in one invocation.
C4_LikeLimit ==
    \A a \in AcctIdx : \A i \in DOMAIN Targets(a) :
        LET t == Targets(a)[i]
        IN  t.like_limit # None =>
              /\ Cardinality(LikesNow(a, t.handle)) <= t.like_limit
              /\ Cardinality({c \in R.put_liked : c[1] = a /\ c[2] = t.handle}) <= t.like_limit

\* C4 witness: with like_limit = 1, f1 and f3 were followed and exactly one
\* post was liked, f3's own post staying unliked.
C4_Witness ==
    /\ Targets(1) # << >>
    /\ Targets(1)[1].like_limit = 1
    /\ FollowedNow(1, "t1") = {"f1", "f3"}
    /\ Cardinality(LikesNow(1, "t1")) = 1
    /\ R.outcome[1] = "saved"

\* C5 as stated: without a cooldown every identifier is sent at most one
\* message by an account, over all invocations.
C5_Original ==
    \A a \in AcctIdx : config.accounts[a].dm.cooldown_hours = 0 =>
        \A d \in Followers : Cardinality(Sends(a, d)) <= 1

\* C5 as amended: without a cooldown no message is sent to an identifier
\* that has a dm_history entry, so an identifier is sent at most one message
\* in an invocation; a second message to it is sent only in a later
\* invocation, after the invocation of the first one was ended by an
\* exception before the save.
C5_AtMostOncePersisted ==
    \A a \in AcctIdx : config.accounts[a].dm.cooldown_hours = 0 =>
        \A d \in Followers :
            /\ \A i \in Sends(a, d) : hist.dm_log[i].prev = None
            /\ \A i, j \in Sends(a, d) :
                  i < j => /\ hist.dm_log[i].run < hist.dm_log[j].run
                           /\ <<hist.dm_log[i].run, a>> \in hist.lost

\* C5 witness: without a cooldown, f1 was messaged and saved in the first
\* invocation, and the second invocation listed f1 again, sent nothing and
\* saved.
C5_Witness ==
    /\ config.accounts[1].dm.enabled
    /\ config.accounts[1].dm.cooldown_hours = 0
    /\ runs = 2
    /\ pc = "idle"
    /\ R.outcome[1] = "saved"
    /\ 1 \in hist.prev_saved
    /\ Cardinality(Sends(1, "f1")) = 1
    /\ R.dm_count[1] = 0
    /\ "f1" \in ToSet(remote.followers["me"])
    /\ "getFollowers" \in R.calls[1]

\* C6 as stated: with cooldown_hours = H > 0 any two messages of an account
\* to the same identifier are at least H hours apart.
C6_Original ==
    \A a \in AcctIdx : config.accounts[a].dm.cooldown_hours > 0 =>
        \A d \in Followers : \A i, j \in Sends(a, d) :
            i < j => hist.dm_log[j].t - hist.dm_log[i].t >= config.accounts[a].dm.cooldown_hours

\* C6 as amended: with cooldown_hours = H > 0 a message is sent to an
\* identifier with a dm_history entry only H hours or more after the
\* recorded time; two messages to one identifier are at least H hours apart
\* when they are sent in one invocation or the earlier one's invocation
\* reached the save; and a saved invocation leaves in the stored dm_history
\* the time of its last send to each identifier.
C6_Cooldown ==
    \A a \in AcctIdx : config.accounts[a].dm.cooldown_hours > 0 =>
        LET H == config.accounts[a].dm.cooldown_hours
            log == hist.dm_log
        IN  \A d \in Followers :
               /\ \A i \in Sends(a, d) : log[i].prev # None => log[i].t - log[i].prev >= H
               /\ \A i, j \in Sends(a, d) :
                     (i < j /\ <<log[i].run, a>> \notin hist.lost) => log[j].t - log[i].t >= H
               /\ \A i \in Sends(a, d) :
                     (/\ log[i].run = runs
                      /\ R.outcome[a] = "saved"
                      /\ \A j \in Sends(a, d) : j <= i)
                     => /\ Stored(store, a)[1]
                        /\ d \in DOMAIN Stored(store, a)[2].dm_history
                        /\ Stored(store, a)[2].dm_history[d] = isoformat(log[i].t)

\* C6 witness: with a cooldown of 2 hours f1 was messaged twice, the second
\* time in a later invocation that found the first send in dm_history, and
\* the second invocation saved.
C6_Witness ==
    /\ config.accounts[1].dm.cooldown_hours = 2
    /\ pc = "idle"
    /\ R.outcome[1] = "saved"
    /\ \E i, j \in Sends(1, "f1") :
          /\ i < j
          /\ hist.dm_log[j].prev = hist.dm_log[i].t
          /\ hist.dm_log[j].run = runs

\* The messages an account has sent in this invocation.
SentNow(a) == {i \in DOMAIN hist.dm_log : hist.dm_log[i].acct = a /\ hist.dm_log[i].run = runs}

\* C7 as stated: with limit_per_run = L at most L messages are sent in one
\* invocation, and once L have been sent no further page of followers is
\* requested.
C7_Original ==
    \A a \in AcctIdx : config.accounts[a].dm.limit_per_run # None =>
        /\ Cardinality(SentNow(a)) <= config.accounts[a].dm.limit_per_run
        /\ ~R.page_after_limit[a]

\* C7 as amended: with limit_per_run = L at most L messages are sent in one
\* invocation, and messaging ends at the first eligible follower met after
\* L sends, with no page requested from then on; until such a follower is
\* met the followers are still scanned and further pages requested.
C7_DMLimit ==
    \A a \in AcctIdx : config.accounts[a].dm.limit_per_run # None =>
        /\ Cardinality(SentNow(a)) <= config.accounts[a].dm.limit_per_run
        /\ R.limit_hit[a] =>
              /\ R.dm_done[a]
              /\ Cardinality(SentNow(a)) = config.accounts[a].dm.limit_per_run
              /\ ~(acct = a /\ pc \in {"dm_page", "dm_follower"})

\* C7 witness: the limit of 1 ended messaging after one send.
C7_Witness ==
    /\ config.accounts[1].dm.limit_per_run = 1
    /\ R.limit_hit[1]
    /\ Cardinality(SentNow(1)) = 1
    /\ R.outcome[1] = "saved"

\* C8 as stated: an account run that authenticated saves the state exactly
\* once.
C8_Original ==
    \A a \in AcctIdx : (Authenticated(a) /\ Finished(a)) => R.saves[a] = 1

\* C8 as amended: an account run saves the state at most once; the save
\* comes after every configured target was engaged and after messaging (if
\* enabled) returned, and nothing is written before it; the record written
\* is the serialisation of the whole in-memory state; and an authenticated
\* run that is not ended by an exception saves exactly once.
C8_SaveOnce ==
    \A a \in AcctIdx :
        /\ R.saves[a] <= 1
        /\ InProgress(a) => (R.saves[a] = 0 /\ Stored(store, a) = Stored(hist.store0, a))
        /\ R.saves[a] = 1 =>
              /\ R.outcome[a] = "saved"
              /\ R.engaged[a] = Len(Targets(a))
              /\ (config.accounts[a].dm.enabled /\ config.accounts[a].dm.message # "")
                    => R.dm_done[a]
              /\ Stored(store, a) = <<TRUE, to_dict(R.final[a])>>
        /\ (Authenticated(a) /\ Finished(a) /\ R.outcome[a] # "exception") => R.saves[a] = 1

\* C8 witness: both targets were engaged, messaging returned after a send,
\* and the state was saved.
C8_Witness ==
    /\ R.saves[1] = 1
    /\ R.engaged[1] = 2
    /\ R.dm_done[1]
    /\ R.dm_count[1] > 0
    /\ R.follow_log # << >>

\* Endpoints that follow, like, list followers or message.
ActionCalls == {"getFollowers", "follow", "getAuthorFeed", "like", "convo", "sendMessage"}

\* C9: when the login of an account fails, no follow, like, listing or
\* message call is made for it, save is not called, its persisted record
\* stays what it was, and the later accounts are processed.
C9_AuthFailure ==
    \A a \in AcctIdx : R.outcome[a] = "auth_failed" =>
        /\ R.calls[a] \cap ActionCalls = {}
        /\ R.saves[a] = 0
        /\ Stored(store, a) = Stored(hist.store0, a)
        /\ pc = "idle" => \A b \in AcctIdx : Finished(b)

\* C9 witness: the first account has a record with follows from an earlier
\* invocation, its login failed in this one, and the second account was
\* processed and saved.
C9_Witness ==
    /\ pc = "idle"
    /\ R.outcome[1] = "auth_failed"
    /\ R.outcome[2] = "saved"
    /\ Stored(store, 1)[1]
    /\ LoadedFollowed(1, "t1") # {}

\* C10: in a dry run no remote call is made for any account, no session is
\* opened, and the store stays what it was when the invocation began.
C10_DryRun ==
    (dry_run /\ runs > 0) =>
        /\ \A a \in AcctIdx : R.calls[a] = {} /\ R.sessions[a] = 0 /\ R.saves[a] = 0
        /\ session = "none"
        /\ store = hist.store0
        /\ pc \in {"idle", "account"}

\* C10 witness: a dry run went over both accounts, the store holding a
\* record with follows of the first account from an earlier invocation.
C10_Witness ==
    /\ dry_run
    /\ pc = "idle"
    /\ \A a \in AcctIdx : R.outcome[a] = "dry_run"
    /\ Stored(store, 1)[1]
    /\ LoadedFollowed(1, "t1") # {}

\* The entries of the log of an account run that request a page of followers.
Pages(a) == {i \in DOMAIN R.events[a] : R.events[a][i].op = "getFollowers"}

\* No page of a listing is requested after a response without a cursor.
NoPageAfterEnd ==
    \A a \in AcctIdx : \A i, j \in Pages(a) :
        LET e == R.events[a]
        IN  (i < j /\ e[i].res = "ok" /\ e[i].n = 0) => e[j].arg # e[i].arg

\* C11: once a page response of a listing (a target's followers, the
\* account's own followers) carries no cursor, no further page of it is
\* requested; and every invocation of run() that has begun returns.
C11_Pagination ==
    /\ []NoPageAfterEnd
    /\ (pc # "idle") ~> (pc = "idle")

\* C11 witness: run() has returned after an account read a listing of two
\* pages, the second response carrying no cursor, and saved.
C11_Witness ==
    /\ pc = "idle"
    /\ R.outcome[1] = "saved"
    /\ \E i, j \in Pages(1) :
          LET e == R.events[1]
          IN  /\ i < j
              /\ e[i].arg = e[j].arg
              /\ e[i].res = "ok" /\ e[i].n # 0
              /\ e[j].res = "ok" /\ e[j].n = 0

\* Account states to save and load: every combination of a few known
\* followers, message records and target records.
SampleStates ==
    {[known_followers |-> k, dm_history |-> h, targets |-> g] :
        k \in SUBSET {"f1", "f2"},
        h \in UNION {[D -> {isoformat(0), isoformat(2)}] : D \in SUBSET {"f1", "f2"}},
        g \in UNION {[D -> [followed : SUBSET {"f1", "f3"}, liked_posts : SUBSET {"p1"}]] :
                        D \in SUBSET {"t1"}}}

\* C12: save(h, s) followed by load(h) returns a state with the
\* known_followers, dm_history and per-target followed / liked_posts of s:
\* for every sample state and handle, for the state an account run is about
\* to save, and for the record a saved run has left; and the load of a handle
\* without a stored record returns the empty state.
C12_RoundTrip ==
    /\ runs = 0 =>
          \A s \in SampleStates : \A h \in {HandleA, HandleB} :
              /\ load(save(store, h, s), h) = s
              /\ load(store, h) = AccountState
    /\ pc = "save" => load(save(store, account.handle, state), account.handle) = state
    /\ \A a \in AcctIdx :
          /\ R.outcome[a] = "saved" => load(store, Handle(a)) = R.final[a]
          /\ (Finished(a) /\ ~Stored(hist.store0, a)[1]) => R.before[a] = AccountState

\* C12 witness: the second invocation loaded for the first account exactly
\* the state the first invocation saved, with known followers, a message
\* record, and a target with followed identifiers and liked posts.
C12_Witness ==
    /\ runs = 2
    /\ pc = "login"
    /\ acct = 1
    /\ 1 \in hist.prev_saved
    /\ state = load(hist.store0, Handle(1))
    /\ state.known_followers # {}
    /\ state.dm_history # EmptyMap
    /\ "t1" \in DOMAIN state.targets
    /\ state.targets["t1"].followed # {}
    /\ state.targets["t1"].liked_posts # {}

\* C13: the storage keys of distinct account handles differ, so that no
\* account run loads a record that an account with another handle wrote, and
\* no save overwrites one.
C13_DistinctKeys ==
    \A a, b \in AcctIdx :
        Handle(a) # Handle(b) => \A how \in {"load", "save"} : <<how, a>> \notin R.crossed

\* The first n entries of a listing that are neither the account itself nor
\* in a given set, each taken once, in the order of the listing.
RECURSIVE FirstNew(_, _, _, _, _)
FirstNew(listing, me, skip, n, acc) ==
    IF listing = << >> \/ Len(acc) = n THEN acc
    ELSE LET x == Head(listing)
         IN  IF x = me \/ x \in skip \/ x \in ToSet(acc)
             THEN FirstNew(Tail(listing), me, skip, n, acc)
             ELSE FirstNew(Tail(listing), me, skip, n, Append(acc, x))

\* The identifiers followed with success for a target, in the order of the calls.
FollowSeq(a, t) ==
    LET log == SelectSeq(R.follow_log, LAMBDA c : c[1] = a /\ c[2] = t)
    IN  [i \in DOMAIN log |-> log[i][3]]

\* The part of an account's log that belongs to a target: from the
\* resolution of its profile to the next profile resolution or to the first
\* page of another listing.
Segment(a, t) ==
    LET e == R.events[a]
        starts == {i \in DOMAIN e : e[i].op = "getProfile" /\ e[i].arg = t}
    IN  {i \in DOMAIN e :
            \E s \in starts :
                /\ s < i
                /\ \A j \in DOMAIN e :
                      (s < j /\ j <= i) =>
                          /\ e[j].op # "getProfile"
                          /\ e[j].op = "getFollowers" => e[j].arg = t}

\* The successful follow calls in a target's part of the log.
FollowsIn(a, t) == {i \in Segment(a, t) : R.events[a][i].op = "follow" /\ R.events[a][i].res = "ok"}

\* C14: when every remote call succeeds and follow_limit = N >= 1, the
\* identifiers followed for a target are the first N followers of the
\* listing that are not yet followed and not the account itself, in page
\* order (all of them when the target is done, a prefix before); and after
\* the N-th follow the target's part of the log holds no follow call and no
\* page request, and a feed request only for the N-th follower.
C14_StopAtLimit ==
    faults = 0 =>
        \A a \in AcctIdx : \A i \in DOMAIN Targets(a) :
            LET t == Targets(a)[i]
                e == R.events[a]
                want == FirstNew(remote.followers[t.handle], remote.did[Handle(a)],
                                 LoadedFollowed(a, t.handle), t.follow_limit, << >>)
                got == FollowSeq(a, t.handle)
            IN  (t.follow_limit # None /\ t.follow_limit >= 1) =>
                  /\ Len(got) <= Len(want)
                  /\ got = SubSeq(want, 1, Len(got))
                  /\ R.engaged[a] >= i => got = want
                  /\ \A k \in FollowsIn(a, t.handle) :
                        Cardinality({j \in FollowsIn(a, t.handle) : j <= k}) = t.follow_limit =>
                            \A j \in Segment(a, t.handle) :
                                j > k => /\ e[j].op \in {"sleep", "getAuthorFeed", "like"}
                                         /\ e[j].op = "getAuthorFeed" => e[j].arg = e[k].arg

\* C14 witness: followers f1, f2, f3 on two pages, follow_limit = 2 and
\* like_limit = 1: f1 and f2 were followed, f1's post alone was liked, the
\* second page was never requested, and the state was saved.
C14_Witness ==
    /\ faults = 0
    /\ Targets(1) # << >>
    /\ Targets(1)[1].follow_limit = 2
    /\ Targets(1)[1].like_limit = 1
    /\ remote.followers["t1"] = <<"f1", "f2", "f3">>
    /\ R.outcome[1] = "saved"
    /\ FollowSeq(1, "t1") = <<"f1", "f2">>
    /\ R.like_log = <<<<1, "t1", "p1">>>>
    /\ Cardinality(Pages(1)) = 1
    /\ "f3" \notin R.final[1].targets["t1"].followed

\* The failed follow calls in a target's part of the log.
FailedFollowsIn(a, t) ==
    {i \in Segment(a, t) : R.events[a][i].op = "follow" /\ R.events[a][i].res = "bluesky"}

\* The followed set of a target in a state, empty without a record of it.
FollowedIn(st, t) == IF t \in DOMAIN st.targets THEN st.targets[t].followed ELSE {}

\* C15: a follow call that fails with a remote error puts the identifier
\* into the target's followed set (in memory at once, in the record when the
\* run saves); the counter of follows counts the successful calls only; the
\* call is followed by no pause and by no feed request or follow call for
\* that follower; the failure does not end the account run, which goes on
\* to the followers behind it (without a follow limit, to every follower of
\* the listing); and an invocation after one that saved makes no follow call
\* for the identifier.
C15_FailedFollow ==
    \A a \in AcctIdx : \A i \in DOMAIN Targets(a) :
        LET t == Targets(a)[i].handle
            e == R.events[a]
        IN  /\ (acct = a /\ ti = i /\ pc \in {"page", "follower", "like"})
                  => /\ followed_count = Len(FollowSeq(a, t))
                     /\ \A c \in R.failed : (c[1] = a /\ c[2] = t) => c[3] \in FollowedIn(state, t)
            /\ \A k \in FailedFollowsIn(a, t) :
                  /\ <<a, t, e[k].arg>> \in R.put_followed
                  /\ k + 1 \in DOMAIN e => e[k + 1].op # "sleep"
                  /\ \A j \in Segment(a, t) :
                        j > k => ~(e[j].op \in {"getAuthorFeed", "follow"} /\ e[j].arg = e[k].arg)
                  /\ k = Len(e) => R.outcome[a] \in {"none", "saved"}
                  /\ R.outcome[a] = "saved" =>
                        e[k].arg \in FollowedIn(load(store, Handle(a)), t)
                  /\ (Targets(a)[i].follow_limit = None /\ R.engaged[a] >= i) =>
                        LET all == ToSet(remote.followers[t]) \ {remote.did[Handle(a)]}
                        IN  /\ InProgress(a) => all \subseteq FollowedIn(state, t)
                            /\ R.outcome[a] = "saved" => all \subseteq FollowedIn(R.final[a], t)
            /\ \A c \in hist.prev_failed :
                  (c[1] = a /\ c[2] = t /\ a \in hist.prev_saved) => c \notin R.follow_calls

\* C15 witness: the follow of f1 failed in the first invocation, which went
\* on to follow another follower and saved; the second invocation read the
\* listing with f1 in it, made no follow call and saved.
C15_Witness ==
    /\ runs = 2
    /\ pc = "idle"
    /\ hist.prev_failed = {<<1, "t1", "f1">>}
    /\ 1 \in hist.prev_saved
    /\ \E c \in hist.prev_followed : c[3] # "f1"
    /\ "f1" \in ToSet(remote.followers["t1"])
    /\ "getFollowers" \in R.calls[1]
    /\ R.follow_calls = {}
    /\ R.outcome[1] = "saved"

\* The state of an account once _message_new_followers has returned: the
\* one in memory up to the save, the one handed to save from then on.
AfterMessaging(a) == IF acct = a /\ pc = "save" THEN state ELSE R.final[a]

\* The sendMessage calls of an account that the remote service rejected.
RejectedSends(a) ==
    {k \in DOMAIN R.events[a] : R.events[a][k].op = "sendMessage" /\ R.events[a][k].res = "bluesky"}

\* C16: when the remote service rejects the send to one follower, the send
\* is neither recorded in dm_history nor counted, and messaging goes on with
\* the next follower: without a limit per run, every follower of the listing
\* has been visited when messaging returns.
C16_SkipOneFollower ==
    \A a \in AcctIdx : \A k \in RejectedSends(a) :
        (R.dm_done[a] /\ config.accounts[a].dm.limit_per_run = None) =>
            /\ R.events[a][k].arg \in DOMAIN AfterMessaging(a).dm_history
                  => R.events[a][k].arg \in DOMAIN R.before[a].dm_history
            /\ ToSet(remote.followers[remote.did[Handle(a)]])
                  \subseteq AfterMessaging(a).known_followers

\* The calls of an account after which the client raised
\* DirectMessageNotSupported.
Unsupported(a) ==
    {k \in DOMAIN R.events[a] :
        R.events[a][k].op \in {"convo", "sendMessage"} /\ R.events[a][k].res = "bluesky"}

\* C17: once the client has signalled that direct messaging is unsupported,
\* the account makes no further conversation or send call in the run and
\* messaging has returned; the run saves its state, with every follow and
\* like of the target engagement and every message sent before (under the
\* time of the last send to the identifier); and the later accounts are
\* processed.
C17_MessagingAborted ==
    \A a \in AcctIdx : \A k \in Unsupported(a) :
        LET e == R.events[a]
        IN  /\ \A j \in DOMAIN e : j > k => e[j].op \notin {"convo", "sendMessage"}
            /\ R.dm_done[a]
            /\ ~(acct = a /\ pc \in {"dm_page", "dm_follower"})
            /\ Finished(a) =>
                  /\ R.outcome[a] = "saved"
                  /\ Stored(store, a) = <<TRUE, to_dict(R.final[a])>>
                  /\ \A c \in R.put_followed : c[1] = a => c[3] \in FollowedIn(R.final[a], c[2])
                  /\ \A c \in R.put_liked :
                        c[1] = a => c[3] \in R.final[a].targets[c[2]].liked_posts
                  /\ \A i \in SentNow(a) :
                        /\ hist.dm_log[i].did \in DOMAIN R.final[a].dm_history
                        /\ (\A j \in SentNow(a) : hist.dm_log[j].did = hist.dm_log[i].did => j <= i)
                              => R.final[a].dm_history[hist.dm_log[i].did]
                                    = isoformat(hist.dm_log[i].t)
            /\ pc = "idle" => \A b \in AcctIdx : Finished(b)

\* C17 witness: after follows and a like for the targets and a message to
\* one follower, the send to the next follower was rejected; the account was
\* saved, and so was the second account.
C17_Witness ==
    /\ pc = "idle"
    /\ Unsupported(1) # {}
    /\ R.dm_count[1] >= 1
    /\ R.follow_log # << >>
    /\ R.like_log # << >>
    /\ R.outcome[1] = "saved"
    /\ R.outcome[2] = "saved"

\* The calls of an account's targets (profile resolution, page of followers)
\* that failed with a remote error.
TargetErrors(a) ==
    {k \in DOMAIN R.events[a] :
        /\ R.events[a][k].op \in {"getProfile", "getFollowers"}
        /\ R.events[a][k].res = "bluesky"
        /\ \E i \in DOMAIN Targets(a) : Targets(a)[i].handle = R.events[a][k].arg}

\* C18: a remote error in a call of one target abandons that target only:
\* the account run engages every configured target, runs messaging if it is
\* enabled, and saves the state with the follows and likes of the run.
C18_TargetIsolation ==
    \A a \in AcctIdx :
        (TargetErrors(a) # {} /\ Finished(a)) =>
            /\ R.outcome[a] = "saved"
            /\ R.engaged[a] = Len(Targets(a))
            /\ (config.accounts[a].dm.enabled /\ config.accounts[a].dm.message # "") => R.dm_done[a]
            /\ \A c \in R.put_followed : c[1] = a => c[3] \in FollowedIn(R.final[a], c[2])

\* The delay an account resolves for a pause after a follow, a like, a send.
DelayOf(a, kind) ==
    IF kind = "like"
    THEN _effective_delay(config.accounts[a].like_delay_seconds, config.default_like_delay_seconds)
    ELSE _effective_delay(config.accounts[a].follow_delay_seconds,
                          config.default_follow_delay_seconds)

\* The call a pause of each kind follows.
PausedCall == [follow |-> "follow", like |-> "like", send |-> "sendMessage"]

\* The pauses, and the successful mutating calls, in the log of an account.
Pauses(a) == {k \in DOMAIN R.events[a] : R.events[a][k].op = "sleep"}

Successes(a) ==
    {k \in DOMAIN R.events[a] :
        R.events[a][k].op \in {"follow", "like", "sendMessage"} /\ R.events[a][k].res = "ok"}

\* C19: every pause comes directly after a successful follow, like or send
\* and lasts the positive delay resolved for it; a successful follow, like
\* or send with a positive resolved delay is directly followed by its pause,
\* before any other remote call (one with a zero delay by none); and a dry
\* run pauses nowhere.
C19_Pauses ==
    \A a \in AcctIdx :
        LET e == R.events[a]
        IN  /\ \A k \in Pauses(a) :
                  /\ k - 1 \in Successes(a)
                  /\ e[k - 1].op = PausedCall[e[k].arg]
                  /\ e[k].n = DelayOf(a, e[k].arg)
                  /\ e[k].n > 0
            /\ \A k \in Successes(a) :
                  LET kind == IF e[k].op = "sendMessage" THEN "send" ELSE e[k].op
                  IN  DelayOf(a, kind) > 0 =>
                        /\ k + 1 \in Pauses(a)
                        /\ e[k + 1].arg = kind
            /\ dry_run => e = << >>

\* C19 witness: in one account run a follow failed and was followed by
\* another call without a pause, and a successful follow and a successful
\* like were each followed by their pause.
C19_Witness ==
    LET e == R.events[1]
    IN  /\ R.outcome[1] = "saved"
        /\ \E k \in DOMAIN e :
              /\ e[k].op = "follow" /\ e[k].res = "bluesky"
              /\ k + 1 \in DOMAIN e /\ e[k + 1].op # "sleep"
        /\ \E k \in Pauses(1) : e[k].arg = "follow"
        /\ \E k \in Pauses(1) : e[k].arg = "like"

\* The delay the configuration asks for after a follow, a like or a send of
\* an account: the account's own delay where it gives one and the global
\* default otherwise, both read from the document where the configuration
\* was loaded from one.
WantedDelay(a, kind) ==
    LET given == IF document = NoDocument
                 THEN IF kind = "like" THEN config.accounts[a].like_delay_seconds
                                       ELSE config.accounts[a].follow_delay_seconds
                 ELSE IF kind = "like"
                      THEN get(document.accounts[a].like_delay_seconds,
                               document.accounts[a].delay_seconds)
                      ELSE get(document.accounts[a].follow_delay_seconds,
                               document.accounts[a].delay_seconds)
        global == IF document = NoDocument
                  THEN IF kind = "like" THEN config.default_like_delay_seconds
                                        ELSE config.default_follow_delay_seconds
                  ELSE IF kind = "like"
                       THEN get(document.default_like_delay_seconds, BuiltinDelay)
                       ELSE get(document.default_follow_delay_seconds, BuiltinDelay)
    IN  IF given # None THEN given ELSE global

\* C20: the pause after a successful follow or send lasts the account's
\* follow delay where the configuration gives one and the global default
\* follow delay otherwise, and the pause after a like the like delay resolved
\* the same way; for an account of a document without a delay of its own it
\* lasts the document's default_follow_delay_seconds /
\* default_like_delay_seconds.
C20_DelayResolution ==
    \A a \in AcctIdx : \A k \in Successes(a) :
        LET e == R.events[a]
            kind == IF e[k].op = "sendMessage" THEN "send" ELSE e[k].op
        IN  IF WantedDelay(a, kind) > 0
            THEN k + 1 \in Pauses(a) /\ e[k + 1].n = WantedDelay(a, kind)
            ELSE k + 1 \notin Pauses(a)

\* ------------------------------------------------------------------- C21
\* The second state holds everything the first one holds: the known
\* followers, the keys of dm_history and of targets, and each target's
\* followed and liked_posts sets.
Grown(old, new) ==
    /\ old.known_followers \subseteq new.known_followers
    /\ DOMAIN old.dm_history \subseteq DOMAIN new.dm_history
    /\ DOMAIN old.targets \subseteq DOMAIN new.targets
    /\ \A t \in DOMAIN old.targets :
          /\ t \in DOMAIN new.targets
          /\ old.targets[t].followed \subseteq new.targets[t].followed
          /\ old.targets[t].liked_posts \subseteq new.targets[t].liked_posts

\* C21: state sets only grow. While an account is being processed, the
\* state in memory holds everything the state held when it was loaded (known
\* followers, every target's followed and liked_posts sets, the keys of
\* targets and of dm_history); the state handed to save does too; and every
\* record of the store holds everything the same record held when the
\* invocation of run() began, so each persisted set is a superset of the one
\* the previous run persisted.
C21_SetsGrow ==
    /\ \A a \in AcctIdx : InProgress(a) => Grown(R.before[a], state)
    /\ \A a \in AcctIdx : R.outcome[a] = "saved" =>
          /\ Grown(R.before[a], R.final[a])
          /\ Grown(R.final[a], load(store, Handle(a)))
    /\ \A k \in DOMAIN hist.store0 :
          /\ k \in DOMAIN store
          /\ Grown(from_dict(hist.store0[k]), from_dict(store[k]))

\* A second run loaded a non-empty followed set, followed another
\* identifier and saved: the record grew from one run to the next.
C21_Witness ==
    /\ runs = 2
    /\ R.outcome[1] = "saved"
    /\ LoadedFollowed(1, "t1") # {}
    /\ FollowedIn(R.final[1], "t1") # LoadedFollowed(1, "t1")
    /\ _path_for(Handle(1)) \in DOMAIN hist.store0
    /\ store[_path_for(Handle(1))] # hist.store0[_path_for(Handle(1))]

\* ------------------------------------------------------------------- C22
\* The stored string reads as an ISO time.
Parses(stamp) == stamp.tz \in {"+00:00", ""}

\* The decision as the policy states it, for an identifier, a dm_history and
\* the configured cooldown in hours (0: none): no entry, or a cooldown and a
\* timestamp that does not parse or is at least the cooldown old.
PolicyTable(did, history, hours) ==
    \/ did \notin DOMAIN history
    \/ /\ hours # 0
       /\ \/ ~Parses(history[did])
          \/ now - history[did].t >= hours

\* dm_history values of every form, for the sweep over the pure function.
SampleHistories ==
    UNION {[D -> {isoformat(0), isoformat(1), Naive(0), Naive(1), Malformed, NoText}] :
              D \in SUBSET {"f1", "f2"}}

\* _should_send_dm agrees with the policy: on every sample of its inputs at
\* every clock value, and at every decision _message_new_followers makes.
C22_Decision ==
    /\ runs = 0 =>
          \A did \in {"f1", "f2"} : \A h \in SampleHistories : \A hours \in 0 .. 2 :
              _should_send_dm(did, [AccountState EXCEPT !.dm_history = h], cooldown_of(hours))
                  <=> PolicyTable(did, h, hours)
    /\ (pc = "dm_follower" /\ idx <= Len(items)) =>
          (Eligible <=> PolicyTable(follower, state.dm_history, dm_config.cooldown_hours))

\* A step taken where the decision is "not eligible" records the follower
\* as known, which the loop does before it decides, and changes nothing
\* else of the state, of the store or of what was sent.
C22_NoEffect ==
    (pc = "dm_follower" /\ idx <= Len(items) /\ ~Eligible) =>
        /\ state' = Known(state)
        /\ store' = store
        /\ sent' = sent
        /\ hist' = hist

\* C22: cooldown policy decision. For every identifier, dm_history and
\* cooldown the follower is eligible for a message iff it has no dm_history
\* entry, or a non-zero cooldown is configured and the stored timestamp
\* fails to parse or the time elapsed since it (a timestamp without
\* timezone read as UTC) is at least the cooldown; with an entry and no
\* cooldown it is never eligible; and the decision changes no state.
C22_CooldownPolicy == []C22_Decision /\ [][C22_NoEffect]_vars

\* The decision was made for a follower whose stored timestamp has no
\* timezone, under a cooldown that has elapsed: eligible.
C22_Witness ==
    /\ pc = "dm_follower" /\ idx <= Len(items)
    /\ follower \in DOMAIN state.dm_history
    /\ state.dm_history[follower] = Naive(1)
    /\ dm_config.cooldown_hours = 2
    /\ now = 3
    /\ Eligible

\* ------------------------------------------------------------------- C23
\* The identifiers of a target's listing other than the account's own.
Candidates(a, t) == ToSet(remote.followers[t]) \ {remote.did[Handle(a)]}

\* The candidates a followed set does not hold yet.
Remaining(a, t, followed) == Candidates(a, t) \ followed

\* C23: repeated runs make progress and converge. While no remote call has
\* failed, every run of an account that reached its save has, for a target
\* with follow_limit = N >= 1, moved min(N, remaining) listed identifiers
\* other than the account's own into the target's followed set and
\* persisted it, so the identifiers still to follow shrink by N per run
\* until none is left; and a run that loaded a followed set holding all of
\* them issued no follow call for that target.
C23_Converges ==
    faults = 0 =>
        \A a \in AcctIdx : \A i \in DOMAIN Targets(a) :
            LET t == Targets(a)[i]
                N == t.follow_limit
                left0 == Remaining(a, t.handle, LoadedFollowed(a, t.handle))
                left1 == Remaining(a, t.handle, FollowedIn(R.final[a], t.handle))
            IN  /\ (N # None /\ N >= 1 /\ R.outcome[a] = "saved") =>
                      /\ left1 \subseteq left0
                      /\ Cardinality(left1) =
                            IF Cardinality(left0) > N THEN Cardinality(left0) - N ELSE 0
                      /\ FollowedIn(load(store, Handle(a)), t.handle)
                            = FollowedIn(R.final[a], t.handle)
                /\ (N # None /\ N >= 1 /\ left0 = {}) =>
                      ~\E c \in R.follow_calls : c[1] = a /\ c[2] = t.handle

\* A second run without errors loaded a followed set that held a part of
\* the listing, followed the rest and saved: every listed identifier is in
\* the persisted followed set.
C23_Witness ==
    /\ runs = 2
    /\ faults = 0
    /\ R.outcome[1] = "saved"
    /\ Targets(1) # << >>
    /\ Targets(1)[1].follow_limit \notin {None, 0}
    /\ LoadedFollowed(1, "t1") # {}
    /\ Remaining(1, "t1", LoadedFollowed(1, "t1")) # {}
    /\ Remaining(1, "t1", FollowedIn(load(store, Handle(1)), "t1")) = {}

\* ------------------------------------------------------------------- C24
\* The follow calls of an account's run whose subject is an identifier.
FollowCallsFor(a, did) ==
    {k \in DOMAIN R.events[a] : R.events[a][k].op = "follow" /\ R.events[a][k].arg = did}

\* C24: no double follow across targets. Within one run of an account each
\* identifier is the subject of at most one follow call, also when it is in
\* the follower listings of two of the account's targets or more than once
\* in one listing.
C24_NoDoubleFollow ==
    \A a \in AcctIdx : \A did \in Dids : Cardinality(FollowCallsFor(a, did)) <= 1

\* ------------------------------------------------------------------- C25
\* The successful like calls in a target's part of the log.
LikesIn(a, t) == {k \in Segment(a, t) : R.events[a][k].op = "like" /\ R.events[a][k].res = "ok"}

\* A feed is fetched for a follower only after the successful follow call
\* for that follower, with nothing but the pause in between, and a like call
\* comes directly after the feed that listed the post.
RightAfterFollow(a) ==
    LET e == R.events[a]
    IN  \A k \in DOMAIN e :
            /\ e[k].op = "getAuthorFeed" =>
                  \E j \in DOMAIN e :
                      /\ j < k
                      /\ e[j].op = "follow" /\ e[j].res = "ok" /\ e[j].arg = e[k].arg
                      /\ \A m \in DOMAIN e : (j < m /\ m < k) => e[m].op = "sleep"
            /\ e[k].op = "like" =>
                  /\ k > 1
                  /\ e[k - 1].op = "getAuthorFeed" /\ e[k - 1].res = "ok"
                  /\ FeedOf[e[k - 1].arg] # << >>
                  /\ FeedOf[e[k - 1].arg][1] = e[k].arg

\* C25 as stated: no post of a follower that was in the target's followed
\* set at the start of the run is liked in that run.
C25_Original ==
    \A k \in DOMAIN R.like_log :
        AuthorOf[R.like_log[k][3]] \notin LoadedFollowed(R.like_log[k][1], R.like_log[k][2])

\* C25: likes happen only right after a successful follow. A feed fetch or
\* like call is made for a follower only in the loop iteration in which the
\* follow call for that follower succeeded; at every point of a target's
\* engagement the likes of the run are at most its follows; and for a
\* follower already in the followed set at the start of the run no feed is
\* fetched and no like call made in that run.
C25_LikeAfterFollow ==
    \A a \in AcctIdx :
        /\ RightAfterFollow(a)
        /\ (acct = a /\ pc \in {"page", "follower", "like"}) => liked_count <= followed_count
        /\ \A i \in DOMAIN Targets(a) :
              LET t == Targets(a)[i].handle
              IN  /\ Cardinality(LikesIn(a, t)) <= Cardinality(FollowsIn(a, t))
                  /\ \A k \in Segment(a, t) :
                        R.events[a][k].op = "getAuthorFeed" =>
                            R.events[a][k].arg \notin LoadedFollowed(a, t)

\* A second run loaded f1 as followed with its post unliked (the like of
\* the first run failed), skipped f1 without a feed request, and liked a
\* post after following another follower.
C25_Witness ==
    /\ runs = 2
    /\ R.outcome[1] = "saved"
    /\ "f1" \in LoadedFollowed(1, "t1")
    /\ "p1" \notin LoadedLiked(1, "t1")
    /\ Targets(1)[1].like_limit = None
    /\ \E k \in DOMAIN R.like_log : R.like_log[k][1] = 1 /\ R.like_log[k][2] = "t1"
    /\ ~\E k \in DOMAIN R.events[1] :
            R.events[1][k].op = "getAuthorFeed" /\ R.events[1][k].arg = "f1"

====
